---- MODULE Spec2Model ----
(***************************************************************************)
(* Model of scripts/dog_parentage_analysis.py: DogDNAParentageAnalyzer.    *)
(*                                                                         *)
(* A Python str is a sequence of one-character strings.  A spreadsheet     *)
(* cell is a record [isna, str]: isna is pandas' NaN/None.  A value that   *)
(* may be None (the result of parse_genotype) is a record [isnone, alleles]*)
(* so that None and the empty list stay distinct values.                   *)
(***************************************************************************)
EXTENDS Integers, Sequences, FiniteSets, TLC

VARIABLES profiles, analysis_results, pc, call, common, idx, results,
          conclusion, ret, loads, analyses, arg, out, done

vars == <<profiles, analysis_results, pc, call, common, idx, results,
          conclusion, ret, loads, analyses, arg, out, done>>

analyzerVars == <<profiles, analysis_results, pc, call, common, idx, results,
                  conclusion, ret, loads, analyses>>

(* ------------------------------ bounds --------------------------------- *)

\* longest raw genotype string given to parse_genotype on its own
MaxLen == 5

\* longest allele list given to check_mendelian_inheritance on its own
MaxAlleles == 2

\* largest consistent / inconsistent count given to the classification
MaxCount == 21

\* marker identifiers are 1..MaxMarker
MaxMarker == 2

\* most rows of one sheet
MaxRows == 2

\* most load_dog_profile calls, most analyze_parentage calls
MaxLoads == 3

MaxAnalyses == 2

(* ------------------------------ strings -------------------------------- *)

Chars == {" ", "/", "|", "A", "B", "C"}

\* code point of a character: Python compares str by code point
Ord(c) ==
  CASE c = " " -> 32
    [] c = "/" -> 47
    [] c = "A" -> 65
    [] c = "B" -> 66
    [] c = "C" -> 67
    [] c = "|" -> 124

Strings(n) == UNION {[1..k -> Chars] : k \in 0..n}

\* sep in s
Contains(s, sep) == \E k \in 1..Len(s) : s[k] = sep

\* str.strip(): drop leading and trailing whitespace
Strip(s) ==
  LET keep == {k \in 1..Len(s) : s[k] # " "}
  IN  IF keep = {} THEN <<>>
      ELSE SubSeq(s, CHOOSE k \in keep : \A j \in keep : k <= j,
                     CHOOSE k \in keep : \A j \in keep : k >= j)

\* str.split(sep) for a one-character sep: one piece more than separators
RECURSIVE Split(_, _)
Split(s, sep) ==
  IF ~Contains(s, sep) THEN <<s>>
  ELSE LET k == CHOOSE i \in 1..Len(s) : s[i] = sep /\ \A j \in 1..(i-1) : s[j] # sep
       IN  <<SubSeq(s, 1, k-1)>> \o Split(SubSeq(s, k+1, Len(s)), sep)

\* a < b on str: first differing code point, else the shorter one
RECURSIVE StrLess(_, _)
StrLess(a, b) ==
  IF b = <<>> THEN FALSE
  ELSE IF a = <<>> THEN TRUE
  ELSE IF a[1] # b[1] THEN Ord(a[1]) < Ord(b[1])
  ELSE StrLess(Tail(a), Tail(b))

\* insert x into the sorted list l after every element not greater than x
RECURSIVE Insert(_, _)
Insert(x, l) ==
  IF l = <<>> THEN <<x>>
  ELSE IF StrLess(x, l[1]) THEN <<x>> \o l
  ELSE <<l[1]>> \o Insert(x, Tail(l))

\* unsortedMut: the list is returned in the order it came
unsortedMut(l) == l

\* sorted(list of str)
RECURSIVE sorted(_)
sorted(l) ==
  IF l = <<>> THEN <<>>
  ELSE Insert(l[Len(l)], sorted(SubSeq(l, 1, Len(l) - 1)))

(* --------------------------- parse_genotype ---------------------------- *)

NaN == [isna |-> TRUE, str |-> <<>>]

Cell(s) == [isna |-> FALSE, str |-> s]

None == [isnone |-> TRUE, alleles |-> <<>>]

Some(l) == [isnone |-> FALSE, alleles |-> l]

\* truth value of a genotype: None and the empty list are false
Truthy(g) == ~g.isnone /\ g.alleles # <<>>

\* the separator rule, lines 88-94
SplitAlleles(s) ==
  IF Contains(s, "/") THEN Split(s, "/")
  ELSE IF Contains(s, "|") THEN Split(s, "|")
  ELSE <<s, s>>

parse_genotype(genotype_str) ==
  IF genotype_str.isna \/ genotype_str.str = <<>> THEN None
  ELSE LET s == Strip(genotype_str.str)
           alleles == SplitAlleles(s)
       IN  Some(sorted([k \in 1..Len(alleles) |-> Strip(alleles[k])]))

(* ------------------- check_mendelian_inheritance ----------------------- *)

\* PossibleOffspring_SelfPair: the inner loop runs over parent1 again
PossibleOffspring_SelfPair(parent1_genotype, parent2_genotype) ==
  [k \in 1..(Len(parent1_genotype) * Len(parent1_genotype)) |->
     sorted(<<parent1_genotype[((k - 1) \div Len(parent1_genotype)) + 1],
              parent1_genotype[((k - 1) % Len(parent1_genotype)) + 1]>>)]

\* PossibleOffspring_NoSort: the pair is appended as drawn, unsorted
PossibleOffspring_NoSort(parent1_genotype, parent2_genotype) ==
  [k \in 1..(Len(parent1_genotype) * Len(parent2_genotype)) |->
     <<parent1_genotype[((k - 1) \div Len(parent2_genotype)) + 1],
       parent2_genotype[((k - 1) % Len(parent2_genotype)) + 1]>>]

\* possible_offspring: the list the nested loops of lines 104-107 build
PossibleOffspring(parent1_genotype, parent2_genotype) ==
  [k \in 1..(Len(parent1_genotype) * Len(parent2_genotype)) |->
     sorted(<<parent1_genotype[((k - 1) \div Len(parent2_genotype)) + 1],
              parent2_genotype[((k - 1) % Len(parent2_genotype)) + 1]>>)]

\* the pair returned: the verdict, and the detail text as the values it
\* prints (missing: the text is "Missing genotype data")
check_mendelian_inheritance(parent1_genotype, parent2_genotype, offspring_genotype) ==
  IF ~(Truthy(parent1_genotype) /\ Truthy(parent2_genotype) /\ Truthy(offspring_genotype))
  THEN [consistent |-> FALSE, missing |-> TRUE, expected |-> {}, actual |-> <<>>]
  ELSE LET possible_offspring ==
             PossibleOffspring(parent1_genotype.alleles, parent2_genotype.alleles)
           offspring_sorted == sorted(offspring_genotype.alleles)
       IN  [consistent |-> \E k \in 1..Len(possible_offspring) :
                              possible_offspring[k] = offspring_sorted,
            missing    |-> FALSE,
            expected   |-> {possible_offspring[k] : k \in 1..Len(possible_offspring)},
            actual     |-> offspring_sorted]

(* ------------------- confidence level and conclusion ------------------- *)

\* ConfidenceLevel_Strict: the first rule asks for more than 20
ConfidenceLevel_Strict(consistent_markers, inconsistent_markers) ==
  IF inconsistent_markers = 0 /\ consistent_markers > 20 THEN "Very High"
  ELSE IF inconsistent_markers <= 1 /\ consistent_markers >= 15 THEN "High"
  ELSE IF inconsistent_markers <= 2 /\ consistent_markers >= 10 THEN "Moderate"
  ELSE "Low"

ConfidenceLevel(consistent_markers, inconsistent_markers) ==
  IF inconsistent_markers = 0 /\ consistent_markers >= 20 THEN "Very High"
  ELSE IF inconsistent_markers <= 1 /\ consistent_markers >= 15 THEN "High"
  ELSE IF inconsistent_markers <= 2 /\ consistent_markers >= 10 THEN "Moderate"
  ELSE "Low"

\* Conclusion_Ties: a tie of the two counts already excludes
Conclusion_Ties(consistent_markers, inconsistent_markers) ==
  IF inconsistent_markers = 0 /\ consistent_markers >= 15 THEN "PARENTAGE CONFIRMED"
  ELSE IF inconsistent_markers <= 2 /\ consistent_markers >= 10 THEN "PARENTAGE LIKELY"
  ELSE IF inconsistent_markers >= consistent_markers THEN "PARENTAGE EXCLUDED"
  ELSE "INCONCLUSIVE"

Conclusion(consistent_markers, inconsistent_markers) ==
  IF inconsistent_markers = 0 /\ consistent_markers >= 15 THEN "PARENTAGE CONFIRMED"
  ELSE IF inconsistent_markers <= 2 /\ consistent_markers >= 10 THEN "PARENTAGE LIKELY"
  ELSE IF inconsistent_markers > consistent_markers THEN "PARENTAGE EXCLUDED"
  ELSE "INCONCLUSIVE"

(* ------------------------ the analyzer's state ------------------------- *)

\* the names profiles are loaded under
DogNames == {"Mother", "Father", "Offspring"}

\* the names analyze_parentage is asked about: "Sibling" is never loaded
OffspringNames == {"Offspring", "Sibling"}

NoCall == [mother |-> "", father |-> "", offspring |-> ""]

\* the accumulator of lines 161-169
NewResults(n) ==
  [total_common_markers |-> n,
   testable_markers     |-> 0,
   consistent_markers   |-> 0,
   inconsistent_markers |-> 0,
   exclusions           |-> <<>>,
   marker_details       |-> <<>>,
   confidence_level     |-> "Unknown"]

\* no call of analyze_parentage is running: it has no locals
NoResults == NewResults(0)

AnalyzerInit ==
  /\ profiles = [n \in {} |-> <<>>]
  /\ analysis_results = [n \in {} |-> 0]
  /\ pc = "idle"
  /\ call = NoCall
  /\ common = <<>>
  /\ idx = 0
  /\ results = NoResults
  /\ conclusion = ""
  /\ ret = "none yet"
  /\ loads = 0
  /\ analyses = 0

Init ==
  /\ AnalyzerInit
  /\ arg = NaN
  /\ out = None
  /\ done = TRUE

(* -------------------------- load_dog_profile --------------------------- *)

\* the rows that survive lines 61-63: dropna on MarkerID and Genotype, then
\* Genotype != '' (MarkerID != '' holds of every numeric identifier)
RECURSIVE CleanRows(_)
CleanRows(df) ==
  IF df = <<>> THEN <<>>
  ELSE LET row == df[1]
           keep == ~row.MarkerID.isna /\ ~row.Genotype.isna /\ row.Genotype.str # <<>>
       IN  (IF keep THEN <<row>> ELSE <<>>) \o CleanRows(Tail(df))

\* excel_file.exists is os.path.exists, excel_file.sheet is what read_excel
\* returns (a read that raises ends like a missing file: nothing stored).
\* The value returned (True, False) is not kept by the analyzer; of the
\* stored profile the fields 'file' and 'profile_type' are never read again
\* and are left out.  loads counts the calls, to bound them.
load_dog_profile(excel_file, dog_name) ==
  /\ pc = "idle"
  /\ loads < MaxLoads
  /\ loads' = loads + 1
  /\ \/ /\ ~excel_file.exists
        /\ UNCHANGED profiles
     \/ /\ excel_file.exists
        /\ LET df == CleanRows(excel_file.sheet)
           IN  profiles' = [n \in DOMAIN profiles \cup {dog_name} |->
                              IF n = dog_name
                              THEN [data |-> df, marker_count |-> Len(df)]
                              ELSE profiles[n]]
  /\ UNCHANGED <<analysis_results, pc, call, common, idx, results, conclusion,
                 ret, analyses, arg, out, done>>

(* -------------------------- analyze_parentage -------------------------- *)

\* missing_dogs of lines 127-130
MissingDogs(mother_name, father_name, offspring_name) ==
  SelectSeq(<<mother_name, father_name, offspring_name>>,
            LAMBDA dog : dog \notin DOMAIN profiles)

\* set(data['MarkerID'].values)
MarkerSet(data) == {data[k].MarkerID.id : k \in 1..Len(data)}

\* data.set_index('MarkerID')['Genotype'].to_dict()[marker_id]: the last
\* row of that identifier wins
Lookup(data, marker_id) ==
  LET rows == {k \in 1..Len(data) : data[k].MarkerID.id = marker_id}
  IN  data[CHOOSE k \in rows : \A j \in rows : k >= j].Genotype

\* sorted(common_markers) on numeric identifiers
RECURSIVE SortedMarkers(_)
SortedMarkers(S) ==
  IF S = {} THEN <<>>
  ELSE LET least == CHOOSE m \in S : \A n \in S : m <= n
       IN  <<least>> \o SortedMarkers(S \ {least})

\* MarkerStep_NoExclusion: an inconsistent marker is counted, not listed
MarkerStep_NoExclusion(r, marker_id, mother_raw, father_raw, offspring_raw) ==
  LET mother_geno == parse_genotype(mother_raw)
      father_geno == parse_genotype(father_raw)
      offspring_geno == parse_genotype(offspring_raw)
      checked == check_mendelian_inheritance(mother_geno, father_geno, offspring_geno)
      marker_result == [marker     |-> marker_id,
                        mother     |-> mother_geno.alleles,
                        father     |-> father_geno.alleles,
                        offspring  |-> offspring_geno.alleles,
                        consistent |-> checked.consistent,
                        details    |-> [missing  |-> checked.missing,
                                        expected |-> checked.expected,
                                        actual   |-> checked.actual]]
  IN  IF ~(Truthy(mother_geno) /\ Truthy(father_geno) /\ Truthy(offspring_geno))
      THEN r
      ELSE IF checked.consistent
      THEN [r EXCEPT !.testable_markers = @ + 1,
                     !.marker_details = Append(@, marker_result),
                     !.consistent_markers = @ + 1]
      ELSE [r EXCEPT !.testable_markers = @ + 1,
                     !.marker_details = Append(@, marker_result),
                     !.inconsistent_markers = @ + 1]

\* MarkerStep_CountsSkipped: testable_markers is counted before the skip
MarkerStep_CountsSkipped(r, marker_id, mother_raw, father_raw, offspring_raw) ==
  LET mother_geno == parse_genotype(mother_raw)
      father_geno == parse_genotype(father_raw)
      offspring_geno == parse_genotype(offspring_raw)
      checked == check_mendelian_inheritance(mother_geno, father_geno, offspring_geno)
      marker_result == [marker     |-> marker_id,
                        mother     |-> mother_geno.alleles,
                        father     |-> father_geno.alleles,
                        offspring  |-> offspring_geno.alleles,
                        consistent |-> checked.consistent,
                        details    |-> [missing  |-> checked.missing,
                                        expected |-> checked.expected,
                                        actual   |-> checked.actual]]
  IN  IF ~(Truthy(mother_geno) /\ Truthy(father_geno) /\ Truthy(offspring_geno))
      THEN [r EXCEPT !.testable_markers = @ + 1]
      ELSE IF checked.consistent
      THEN [r EXCEPT !.testable_markers = @ + 1,
                     !.marker_details = Append(@, marker_result),
                     !.consistent_markers = @ + 1]
      ELSE [r EXCEPT !.testable_markers = @ + 1,
                     !.marker_details = Append(@, marker_result),
                     !.inconsistent_markers = @ + 1,
                     !.exclusions = Append(@, marker_result)]

\* one iteration of the loop of lines 178-209 on the accumulator r
MarkerStep(r, marker_id, mother_raw, father_raw, offspring_raw) ==
  LET mother_geno == parse_genotype(mother_raw)
      father_geno == parse_genotype(father_raw)
      offspring_geno == parse_genotype(offspring_raw)
      checked == check_mendelian_inheritance(mother_geno, father_geno, offspring_geno)
      marker_result == [marker     |-> marker_id,
                        mother     |-> mother_geno.alleles,
                        father     |-> father_geno.alleles,
                        offspring  |-> offspring_geno.alleles,
                        consistent |-> checked.consistent,
                        details    |-> [missing  |-> checked.missing,
                                        expected |-> checked.expected,
                                        actual   |-> checked.actual]]
  IN  IF ~(Truthy(mother_geno) /\ Truthy(father_geno) /\ Truthy(offspring_geno))
      THEN r
      ELSE IF checked.consistent
      THEN [r EXCEPT !.testable_markers = @ + 1,
                     !.marker_details = Append(@, marker_result),
                     !.consistent_markers = @ + 1]
      ELSE [r EXCEPT !.testable_markers = @ + 1,
                     !.marker_details = Append(@, marker_result),
                     !.inconsistent_markers = @ + 1,
                     !.exclusions = Append(@, marker_result)]

\* ReturnMissing_StoresPartial: the fresh accumulator is stored before the
\* return
ReturnMissing_StoresPartial ==
  /\ ret' = "None"
  /\ pc' = "idle"
  /\ analysis_results' = NewResults(0)
  /\ UNCHANGED <<profiles, common, idx, results, conclusion>>

\* lines 132-135: report the missing profiles and return None
ReturnMissing ==
  /\ ret' = "None"
  /\ pc' = "idle"
  /\ UNCHANGED <<profiles, analysis_results, common, idx, results, conclusion>>

\* lines 126-176: the call, up to the first iteration of the loop; call
\* keeps the arguments of the latest call, analyses counts the calls
AnalyzeStart(mother_name, father_name, offspring_name) ==
  /\ pc = "idle"
  /\ analyses < MaxAnalyses
  /\ analyses' = analyses + 1
  /\ call' = [mother |-> mother_name, father |-> father_name,
              offspring |-> offspring_name]
  /\ \/ /\ MissingDogs(mother_name, father_name, offspring_name) # <<>>
        /\ ReturnMissing
     \/ /\ MissingDogs(mother_name, father_name, offspring_name) = <<>>
        /\ LET common_markers == MarkerSet(profiles[mother_name].data)
                                   \cap MarkerSet(profiles[father_name].data)
                                   \cap MarkerSet(profiles[offspring_name].data)
           IN  /\ common' = SortedMarkers(common_markers)
               /\ results' = NewResults(Cardinality(common_markers))
        /\ idx' = 1
        /\ pc' = "loop"
        /\ UNCHANGED <<profiles, analysis_results, conclusion, ret>>
  /\ UNCHANGED <<loads, arg, out, done>>

\* lines 178-209: one iteration
AnalyzeMarker ==
  /\ pc = "loop"
  /\ idx <= Len(common)
  /\ results' = MarkerStep(results, common[idx],
                           Lookup(profiles[call.mother].data, common[idx]),
                           Lookup(profiles[call.father].data, common[idx]),
                           Lookup(profiles[call.offspring].data, common[idx]))
  /\ idx' = idx + 1
  /\ UNCHANGED <<profiles, analysis_results, pc, call, common, conclusion, ret,
                 loads, analyses, arg, out, done>>

\* lines 211-273: the statistics, the two classifications, the store and
\* the return (consistency_rate is kept as its integer part)
AnalyzeFinish ==
  /\ pc = "loop"
  /\ idx > Len(common)
  /\ analysis_results' =
       [total_common_markers |-> results.total_common_markers,
        testable_markers     |-> results.testable_markers,
        consistent_markers   |-> results.consistent_markers,
        inconsistent_markers |-> results.inconsistent_markers,
        exclusions           |-> results.exclusions,
        marker_details       |-> results.marker_details,
        confidence_level     |-> ConfidenceLevel(results.consistent_markers,
                                                 results.inconsistent_markers),
        consistency_rate     |->
          IF results.testable_markers > 0
          THEN (results.consistent_markers * 100) \div results.testable_markers
          ELSE 0]
  /\ conclusion' = Conclusion(results.consistent_markers, results.inconsistent_markers)
  /\ ret' = "results"
  /\ pc' = "idle"
  /\ common' = <<>>
  /\ idx' = 0
  /\ results' = NoResults
  /\ UNCHANGED <<profiles, call, loads, analyses, arg, out, done>>

(* --------------------------- the analyzer ------------------------------ *)

MarkerCell(m) == [isna |-> FALSE, id |-> m]

Row(m, g) == [MarkerID |-> MarkerCell(m), Genotype |-> Cell(g)]

\* an empty row of the sheet: no identifier, no genotype
BlankRow == [MarkerID |-> [isna |-> TRUE, id |-> 0], Genotype |-> NaN]

\* the files load_dog_profile is given: a path that does not exist, an
\* empty sheet, and sheets with a blank row, an empty genotype, an
\* all-whitespace genotype and rows out of order
SampleFiles ==
  {[exists |-> FALSE, sheet |-> <<>>],
   [exists |-> TRUE,  sheet |-> <<>>],
   [exists |-> TRUE,  sheet |-> <<Row(1, <<"A">>), Row(2, <<"B", "/", "A">>)>>],
   [exists |-> TRUE,  sheet |-> <<Row(1, <<"A">>), BlankRow, Row(2, <<" ">>)>>],
   [exists |-> TRUE,  sheet |-> <<Row(2, <<"A">>), Row(1, <<"B">>), Row(3, <<>>)>>]}

Next ==
  \/ \E excel_file \in SampleFiles, dog_name \in DogNames :
        load_dog_profile(excel_file, dog_name)
  \/ \E o \in OffspringNames : AnalyzeStart("Mother", "Father", o)
  \/ AnalyzeMarker
  \/ AnalyzeFinish

Spec == Init /\ [][Next]_vars

(* ------------- analyze_parentage on three loaded profiles -------------- *)

Markers == 1..MaxMarker

\* the genotype cells of the rows that carry an identifier
SheetGenotypes == {Cell(<<>>), Cell(<<"A">>), Cell(<<"B", "/", "A">>)}

SheetRows ==
  [MarkerID : {MarkerCell(m) : m \in Markers}, Genotype : SheetGenotypes]
    \cup {BlankRow}

\* sheets of at most MaxRows rows, the identified rows in ascending order of
\* identifier, each identifier once
Sheets ==
  {sh \in UNION {[1..k -> SheetRows] : k \in 0..MaxRows} :
     \A i, j \in 1..Len(sh) :
        (i < j /\ ~sh[i].MarkerID.isna /\ ~sh[j].MarkerID.isna)
          => sh[i].MarkerID.id < sh[j].MarkerID.id}

\* what load_dog_profile stores for a sheet
Loaded(sheet) == [data |-> CleanRows(sheet), marker_count |-> Len(CleanRows(sheet))]

\* the analyzer after Mother, Father and Offspring have been loaded
InitAnalyze ==
  /\ profiles \in [DogNames -> {Loaded(sh) : sh \in Sheets}]
  /\ analysis_results = [n \in {} |-> 0]
  /\ pc = "idle"
  /\ call = NoCall
  /\ common = <<>>
  /\ idx = 0
  /\ results = NoResults
  /\ conclusion = ""
  /\ ret = "none yet"
  /\ loads = Cardinality(DogNames)
  /\ analyses = 0
  /\ arg = NaN
  /\ out = None
  /\ done = TRUE

NextAnalyze ==
  \/ \E o \in OffspringNames : AnalyzeStart("Mother", "Father", o)
  \/ AnalyzeMarker
  \/ AnalyzeFinish

SpecAnalyze == InitAnalyze /\ [][NextAnalyze]_vars

(* ------------- one iteration of the marker loop on its own ------------- *)

\* the raw genotypes the three lookups may hold
LoopCells ==
  {NaN, Cell(<<>>), Cell(<<" ">>), Cell(<<"A">>), Cell(<<"B">>),
   Cell(<<"A", "/", "B">>), Cell(<<"B", "|", "A">>), Cell(<<"B", "/", "C">>)}

InitMarker ==
  /\ AnalyzerInit
  /\ arg \in LoopCells \X LoopCells \X LoopCells
  /\ out = NewResults(1)
  /\ done = FALSE

EvalMarker ==
  /\ ~done
  /\ out' = MarkerStep(NewResults(1), 1, arg[1], arg[2], arg[3])
  /\ done' = TRUE
  /\ UNCHANGED <<analyzerVars, arg>>

NextMarker == EvalMarker

SpecMarker == InitMarker /\ [][NextMarker]_vars

(* ------------------- parse_genotype on its own ------------------------- *)

RawCells == {NaN} \cup {Cell(s) : s \in Strings(MaxLen)}

InitParse ==
  /\ AnalyzerInit
  /\ arg \in RawCells
  /\ out = None
  /\ done = FALSE

Parse ==
  /\ ~done
  /\ out' = parse_genotype(arg)
  /\ done' = TRUE
  /\ UNCHANGED <<analyzerVars, arg>>

NextParse == Parse

SpecParse == InitParse /\ [][NextParse]_vars

(* -------------- check_mendelian_inheritance on its own ----------------- *)

Alleles == {<<"A">>, <<"B">>, <<"C">>}

Genotypes == {None} \cup {Some(l) : l \in UNION {[1..k -> Alleles] : k \in 0..MaxAlleles}}

InitCheck ==
  /\ AnalyzerInit
  /\ arg \in Genotypes \X Genotypes \X Genotypes
  /\ out = None
  /\ done = FALSE

Check ==
  /\ ~done
  /\ out' = check_mendelian_inheritance(arg[1], arg[2], arg[3])
  /\ done' = TRUE
  /\ UNCHANGED <<analyzerVars, arg>>

NextCheck == Check

SpecCheck == InitCheck /\ [][NextCheck]_vars

(* ----------- the classification of lines 218-252 on its own ------------ *)

InitClassify ==
  /\ AnalyzerInit
  /\ arg \in (0..MaxCount) \X (0..MaxCount)
  /\ out = [confidence_level |-> "Unknown", conclusion |-> ""]
  /\ done = FALSE

Classify ==
  /\ ~done
  /\ out' = [confidence_level |-> ConfidenceLevel(arg[1], arg[2]),
             conclusion       |-> Conclusion(arg[1], arg[2])]
  /\ done' = TRUE
  /\ UNCHANGED <<analyzerVars, arg>>

NextClassify == Classify

SpecClassify == InitClassify /\ [][NextClassify]_vars

(* ======================= claims: parse_genotype ======================== *)

SepPositions(s) == {k \in 1..Len(s) : s[k] \in {"/", "|"}}

\* the raw value is a/b or a|b for two tokens a, b free of separators
TwoTokens(c) == ~c.isna /\ Cardinality(SepPositions(c.str)) = 1

TokenA(s) == SubSeq(s, 1, (CHOOSE k \in SepPositions(s) : TRUE) - 1)

TokenB(s) == SubSeq(s, (CHOOSE k \in SepPositions(s) : TRUE) + 1, Len(s))

\* a single non-empty token without separator
OneToken(c) == ~c.isna /\ SepPositions(c.str) = {} /\ c.str # <<>>

SortedPair(a, b) == IF StrLess(b, a) THEN <<b, a>> ELSE <<a, b>>

\* C6 as stated: 'a/b', 'b/a', 'a|b', 'b|a' all parse to the pair {a, b} in
\* sorted order, and a single token t parses to (t, t).
C6_AsStated ==
  done =>
    /\ TwoTokens(arg) =>
         out = Some(SortedPair(TokenA(arg.str), TokenB(arg.str)))
    /\ OneToken(arg) => out = Some(<<arg.str, arg.str>>)

\* C6 amended: 'a/b', 'b/a', 'a|b', 'b|a' all parse to the pair
\* {trim(a), trim(b)} in sorted order, and a single non-empty token t
\* parses to (trim(t), trim(t)).
C6_TrimmedPair ==
  done =>
    /\ TwoTokens(arg) =>
         out = Some(SortedPair(Strip(TokenA(arg.str)), Strip(TokenB(arg.str))))
    /\ OneToken(arg) => out = Some(<<Strip(arg.str), Strip(arg.str)>>)

\* a padded pair given in descending order has been parsed
C6_Witness ==
  /\ done
  /\ TwoTokens(arg)
  /\ TokenA(arg.str) # Strip(TokenA(arg.str))
  /\ StrLess(Strip(TokenB(arg.str)), Strip(TokenA(arg.str)))
  /\ out = Some(<<Strip(TokenB(arg.str)), Strip(TokenA(arg.str))>>)

\* C8: every genotype parse_genotype returns as non-null has exactly two
\* alleles, whatever the raw string.
C8_TwoAlleles == (done /\ ~out.isnone) => Len(out.alleles) = 2

(* ================ claims: check_mendelian_inheritance ================== *)

AlleleSet(g) == {g.alleles[k] : k \in 1..Len(g.alleles)}

\* C1: for three non-null genotypes the verdict is true exactly when the
\* sorted offspring is in { sorted(a, b) : a in p1, b in p2 }; A/A x B/B
\* with offspring C/C is inconsistent, A/B x A/C with offspring B/C is
\* consistent.
C1_MemberOfPossibleSet ==
  (done /\ ~arg[1].isnone /\ ~arg[2].isnone /\ ~arg[3].isnone) =>
    /\ out.consistent <=>
         sorted(arg[3].alleles) \in
           {SortedPair(a, b) : a \in AlleleSet(arg[1]), b \in AlleleSet(arg[2])}
    /\ arg = <<Some(<<<<"A">>, <<"A">>>>), Some(<<<<"B">>, <<"B">>>>),
               Some(<<<<"C">>, <<"C">>>>)>> => ~out.consistent
    /\ arg = <<Some(<<<<"A">>, <<"B">>>>), Some(<<<<"A">>, <<"C">>>>),
               Some(<<<<"B">>, <<"C">>>>)>> => out.consistent

\* scenario A has been checked and found consistent
C1_Witness ==
  /\ done
  /\ arg = <<Some(<<<<"A">>, <<"B">>>>), Some(<<<<"A">>, <<"C">>>>),
             Some(<<<<"B">>, <<"C">>>>)>>
  /\ out.consistent
  /\ ~out.missing

\* C7: swapping the two parents changes neither the verdict nor the set
\* of possible offspring genotypes.
C7_ParentSymmetry ==
  done =>
    LET swapped == check_mendelian_inheritance(arg[2], arg[1], arg[3])
    IN  /\ swapped.consistent = out.consistent
        /\ swapped.expected = out.expected
        /\ swapped.missing = out.missing

\* two different parents, the offspring takes one allele of each
C7_Witness ==
  /\ done
  /\ arg[1] = Some(<<<<"B">>, <<"C">>>>)
  /\ arg[2] = Some(<<<<"A">>, <<"A">>>>)
  /\ arg[3] = Some(<<<<"C">>, <<"A">>>>)
  /\ out.consistent
  /\ out.expected = {<< <<"A">>, <<"B">> >>, << <<"A">>, <<"C">> >>}

(* ====================== claims: classification ========================= *)

\* C3: confidence_level by first match: Very High (0 inconsistent, >= 20
\* consistent), High (<= 1, >= 15), Moderate (<= 2, >= 10), else Low;
\* (20, 0) is Very High, (19, 0) is High, and it is never Unknown.
C3_ConfidenceLadder ==
  done =>
    LET c == arg[1]
        i == arg[2]
        r1 == i = 0 /\ c >= 20
        r2 == i <= 1 /\ c >= 15
        r3 == i <= 2 /\ c >= 10
        level == out.confidence_level
    IN  /\ (level = "Very High") <=> r1
        /\ (level = "High") <=> (~r1 /\ r2)
        /\ (level = "Moderate") <=> (~r1 /\ ~r2 /\ r3)
        /\ (level = "Low") <=> (~r1 /\ ~r2 /\ ~r3)
        /\ level # "Unknown"
        /\ arg = <<20, 0>> => level = "Very High"
        /\ arg = <<19, 0>> => level = "High"

\* the boundary pair (20, 0) has been classified
C3_Witness ==
  done /\ arg = <<20, 0>> /\ out.confidence_level = "Very High"

\* C4: conclusion by first match: Confirmed (0 inconsistent, >= 15
\* consistent), Likely (<= 2, >= 10), Excluded (inconsistent > consistent),
\* else Inconclusive; (18, 0) is Confirmed and (8, 12) is Excluded.
C4_ConclusionLadder ==
  done =>
    LET c == arg[1]
        i == arg[2]
        r1 == i = 0 /\ c >= 15
        r2 == i <= 2 /\ c >= 10
        r3 == i > c
        verdict == out.conclusion
    IN  /\ (verdict = "PARENTAGE CONFIRMED") <=> r1
        /\ (verdict = "PARENTAGE LIKELY") <=> (~r1 /\ r2)
        /\ (verdict = "PARENTAGE EXCLUDED") <=> (~r1 /\ ~r2 /\ r3)
        /\ (verdict = "INCONCLUSIVE") <=> (~r1 /\ ~r2 /\ ~r3)
        /\ arg = <<18, 0>> => verdict = "PARENTAGE CONFIRMED"
        /\ arg = <<8, 12>> => verdict = "PARENTAGE EXCLUDED"

\* the pair (8, 12) has been classified
C4_Witness ==
  done /\ arg = <<8, 12>> /\ out.conclusion = "PARENTAGE EXCLUDED"

(* ======================= claims: analyze_parentage ===================== *)

\* an empty raw genotype: a blank cell or ''
Empty(c) == c.isna \/ c.str = <<>>

\* C2: a common marker with at least one empty raw genotype adds nothing
\* to testable_markers, consistent_markers, inconsistent_markers,
\* marker_details or exclusions, whatever the other two genotypes are; it
\* is counted in total_common_markers only.
C2_EmptyNeverCounts ==
  (done /\ (Empty(arg[1]) \/ Empty(arg[2]) \/ Empty(arg[3]))) =>
    /\ out.testable_markers = 0
    /\ out.consistent_markers = 0
    /\ out.inconsistent_markers = 0
    /\ out.marker_details = <<>>
    /\ out.exclusions = <<>>
    /\ out.total_common_markers = 1

\* the mother's genotype is '', the other two would exclude the parentage
C2_Witness ==
  /\ done
  /\ arg = <<Cell(<<>>), Cell(<<"A">>), Cell(<<"B">>)>>
  /\ out = NewResults(1)

\* C5: a call analyze_parentage(m, f, o) with a profile that is not loaded
\* returns None, evaluates no marker and leaves the stored profiles and the
\* stored analysis_results as they were.
C5_MissingProfileNoEffect ==
  [][(/\ pc = "idle"
      /\ analyses' = analyses + 1
      /\ \E dog \in {call'.mother, call'.father, call'.offspring} :
            dog \notin DOMAIN profiles)
       => /\ ret' = "None"
          /\ pc' = "idle"
          /\ idx' = 0
          /\ results' = NoResults
          /\ profiles' = profiles
          /\ analysis_results' = analysis_results]_vars

\* a call for a dog never loaded has returned None after an earlier call
\* stored its result
C5_Witness ==
  /\ ret = "None"
  /\ pc = "idle"
  /\ call.offspring = "Sibling"
  /\ DOMAIN analysis_results # {}
  /\ analysis_results.testable_markers > 0

\* a raw genotype that is not empty but consists of whitespace only
AllWhitespace(c) == ~c.isna /\ c.str # <<>> /\ Strip(c.str) = <<>>

\* C9: a common marker whose raw genotype is all-whitespace for any of the
\* three dogs is unscorable: it is not evaluated and not counted in
\* testable_markers.
C9_WhitespaceUnscorable ==
  pc = "loop" =>
    \A k \in 1..Len(results.marker_details) :
      \A dog \in {call.mother, call.father, call.offspring} :
        ~AllWhitespace(Lookup(profiles[dog].data, results.marker_details[k].marker))

Ascending(l) == \A i, j \in 1..Len(l) : i < j => l[i].marker < l[j].marker

Bookkeeping(r) ==
  /\ r.testable_markers = r.consistent_markers + r.inconsistent_markers
  /\ r.testable_markers <= r.total_common_markers
  /\ Len(r.marker_details) = r.testable_markers
  /\ Len(r.exclusions) = r.inconsistent_markers
  /\ r.exclusions = SelectSeq(r.marker_details, LAMBDA d : ~d.consistent)
  /\ Ascending(r.marker_details)
  /\ Ascending(r.exclusions)

\* C10: after every iteration of the marker loop and in every returned
\* result, testable = consistent + inconsistent <= total_common, the
\* lengths of marker_details and exclusions are the testable and the
\* inconsistent count, exclusions is the inconsistent subsequence of
\* marker_details, and both lists are in strictly ascending marker order.
C10_Bookkeeping ==
  /\ pc = "loop" => Bookkeeping(results)
  /\ DOMAIN analysis_results # {} => Bookkeeping(analysis_results)

\* the loop has run over two common markers, one consistent, one not
C10_Witness ==
  /\ pc = "loop"
  /\ idx = Len(common) + 1
  /\ results.consistent_markers = 1
  /\ results.inconsistent_markers = 1
  /\ Len(results.exclusions) = 1

====
